---- MODULE Spec2Model ----
(***************************************************************************)
(* Model of the safe self-modification session of src/self_modify.py:      *)
(* SelfModifySession (start_session, modify_temp_file, run_syntax_check,   *)
(* run_shadow_server_test, apply_modifications, rollback, end_session)     *)
(* together with the part of the shadow instance that can reach the file   *)
(* system (executor.write_file behind sandbox.assert_in_sandbox).          *)
(*                                                                         *)
(* The file system is three directories: "live" (jarvis_root), "ws"        *)
(* (temp_dir, made by tempfile.mkdtemp) and "bak" (backup_dir, which is    *)
(* jarvis_root/.backups/backup_<session_id>).  A file name given to the    *)
(* session is a record [dir, name]: dir = "rel" is a plain relative name,  *)
(* any other dir is an absolute path into that directory.  The file        *)
(* system is reliable: an open or a copy fails only for a reason the state *)
(* determines (missing directory, missing source, source = destination).   *)
(***************************************************************************)
EXTENDS Integers, Sequences, FiniteSets, TLC

\* ---------------------------------------------------------------- bounds
\* longest modifications list explored
MaxMods == 2
\* most session objects constructed, and most clear_session calls, explored
MaxObjs == 3

\* ------------------------------------------------------------- constants
Absent == "absent"
None == "None"

\* request_restart's flag file, in the project directory
Sentinel == ".restart_requested"

\* plain file names that can exist in a directory: two core files, a config
\* file, a .py file the project does not have yet, and the restart flag
Names == {"a.py", "b.py", "STATE.json", "n.py", Sentinel}

\* contents a caller can pass to modify_temp_file ("bad" does not compile)
ContentsIn == {"c1", "bad"}

\* config_files of __init__, restricted to the modelled names
config_files == {"STATE.json"}

\* the runtime config list of run_shadow_server_test, restricted likewise
shadow_cfg == {"STATE.json"}

Rel(n) == [dir |-> "rel", name |-> n]
At(d, n) == [dir |-> d, name |-> n]

\* file names handed to modify_temp_file: relative names and an absolute path
FileArgs == {Rel("a.py"), Rel("b.py"), At("live", "b.py")}

\* os.path.join(base, filename): an absolute second argument discards base
Join(base, f) == IF f.dir = "rel" THEN At(base, f.name) ELSE f

\* py_compile of a file with this content returns 0
Valid(c) == c # "bad" /\ c # Absent

VARIABLES
    fs,             \* [dir -> [name -> content]], Absent where no file
    wsExists,       \* the directory temp_dir points to exists on disk
    temp_dir,       \* self.temp_dir: None or "ws"
    backup_dir,     \* self.backup_dir: None or "bak"
    modifications,  \* self.modifications: sequence of file names
    test_results,   \* self.test_results
    core_files,     \* self.core_files
    ROOT,           \* sandbox.ROOT of the shadow instance
    child,          \* the shadow process: none, running, exited
    pc,             \* position of the calling thread
    frame,          \* locals of the call in progress
    ret,            \* what the last call returned, NoRet while a call that
                    \* spawned the shadow process is in progress
    trip,           \* the latest edit since start: file, live content then,
                    \* content given,
                    \* what followed it; whether the shadow instance has
                    \* written a file since start
    current_session,\* _current_session: 0 for None, else the object's number
    made,           \* how many SelfModifySession objects have been constructed
    clears,         \* how many times clear_session has been called
    gpc,            \* per request thread: its position in get_or_create_session
    got             \* per request thread: the object its last call returned

\* the fields of the session object, the file system and the calling thread
session == <<fs, wsExists, temp_dir, backup_dir, modifications, test_results,
             core_files, ROOT, child, pc, frame, ret, trip>>
\* the module global and the threads calling get_or_create_session
singleton == <<current_session, made, clears, gpc, got>>

vars == <<fs, wsExists, temp_dir, backup_dir, modifications, test_results,
          core_files, ROOT, child, pc, frame, ret, trip,
          current_session, made, clears, gpc, got>>

live == fs["live"]
ws == fs["ws"]
bak == fs["bak"]

\* request threads of the server's thread pool
Threads == {"t1", "t2"}

NoFiles == [n \in Names |-> Absent]
\* live0 is the live tree as it was when the call in progress began
\* sent is the set of HTTP requests sent to the shadow instance so far
\* after_end: the call in progress was made right after end_session returned
NoFrame == [caller |-> "none", force |-> FALSE, syntax_ok |-> FALSE,
            res |-> "none", live0 |-> NoFiles, sent |-> {},
            after_end |-> FALSE]
\* touched: the live tree differs from what it was when the call began
\* sent: the HTTP requests the call sent to the shadow instance
NoRet == [op |-> "none", ok |-> FALSE, msg |-> "none", force |-> FALSE,
          raised |-> FALSE, touched |-> FALSE, sent |-> {}]
NoTrip == [file |-> "none", pre |-> Absent, content |-> Absent,
           phase |-> "none", agent |-> FALSE]

Return(op, ok, msg, force, touched) ==
    [op |-> op, ok |-> ok, msg |-> msg, force |-> force, raised |-> FALSE,
     touched |-> touched, sent |-> {}]
Raise(op, force, touched) ==
    [op |-> op, ok |-> FALSE, msg |-> "raised", force |-> force, raised |-> TRUE,
     touched |-> touched, sent |-> {}]

\* the directory named d exists
DirExists(d) == IF d = "ws" THEN wsExists ELSE TRUE

\* _discover_core_files: the .py files listed in jarvis_root
IsPy(n) == n \in {"a.py", "b.py", "n.py"}
DiscoverCoreFiles(root) == {n \in Names : IsPy(n) /\ root[n] # Absent}

Init ==
    /\ fs = [d \in {"live", "ws", "bak"} |->
                IF d = "live"
                THEN [n \in Names |-> CASE n = "a.py" -> "a0"
                                        [] n = "b.py" -> "b0"
                                        [] n = "STATE.json" -> "s0"
                                        [] OTHER -> Absent]
                ELSE NoFiles]
    /\ wsExists = FALSE
    /\ temp_dir = None
    /\ backup_dir = None
    /\ modifications = <<>>
    /\ test_results = <<>>
    /\ core_files = DiscoverCoreFiles(fs["live"])
    /\ ROOT \in {"live", "ext"}
    /\ child = "none"
    /\ pc = "idle"
    /\ frame = NoFrame
    /\ ret = NoRet
    /\ trip = NoTrip
    /\ current_session = 0
    /\ made = 0
    /\ clears = 0
    /\ gpc = [t \in Threads |-> "idle"]
    /\ got = [t \in Threads |-> 0]

\* a call completes with result r
Done(r) == ret' = r

\* ------------------------------------------------------- start_session
\* mkdtemp makes a fresh directory; the backup directory keeps its name
StartWs(lv) == [n \in Names |-> IF n \in core_files THEN lv[n] ELSE Absent]
\* (a backup that saves the config files only)
StartBak_ConfigOnly(lv, bk) ==
    [n \in Names |-> IF n \in config_files /\ lv[n] # Absent THEN lv[n] ELSE bk[n]]

StartBak(lv, bk) ==
    [n \in Names |-> IF n \in (core_files \cup config_files) /\ lv[n] # Absent
                     THEN lv[n] ELSE bk[n]]

start_session ==
    /\ pc = "idle"
    /\ temp_dir' = "ws"
    /\ wsExists' = TRUE
    /\ backup_dir' = "bak"
    /\ fs' = [fs EXCEPT !["ws"] = StartWs(live), !["bak"] = StartBak(live, bak)]
    /\ Done(Return("start", TRUE, "started", FALSE, FALSE))
    /\ trip' = NoTrip
    /\ UNCHANGED <<modifications, test_results, core_files, ROOT, child,
                   pc, frame>>
    /\ UNCHANGED singleton

\* ---------------------------------------------------- modify_temp_file
\* the path open(filepath, "w") is called on
ModifyPath(filename) == Join("ws", filename)

\* (a record list that keeps one record per file name)
Record_OnePerFile(mods, filename) ==
    Append(SelectSeq(mods, LAMBDA m : m # filename), filename)

\* line 81: self.modifications.append(...)
Record(mods, filename) == Append(mods, filename)

\* lines 75-84, whichever thread runs them
ModifyCall(filename, new_content) ==
    /\ Len(modifications) < MaxMods
    /\ IF temp_dir = None
       THEN /\ Done(Return("modify", FALSE, "not_started", FALSE, FALSE))
            /\ UNCHANGED <<fs, modifications, trip>>
       ELSE LET p == ModifyPath(filename) IN
            IF ~DirExists(p.dir)
            THEN /\ Done(Return("modify", FALSE, "modify_failed", FALSE, FALSE))
                 /\ UNCHANGED <<fs, modifications, trip>>
            ELSE /\ fs' = [fs EXCEPT ![p.dir][p.name] = new_content]
                 /\ modifications' = Record(modifications, filename)
                 /\ trip' = IF filename.dir = "rel"
                            THEN [file |-> filename.name, pre |-> live[filename.name],
                                  content |-> new_content,
                                  phase |-> "edited", agent |-> trip.agent]
                            ELSE [NoTrip EXCEPT !.agent = trip.agent]
                 /\ Done(Return("modify", TRUE, "modified", FALSE, fs'["live"] # live))
    /\ UNCHANGED <<wsExists, temp_dir, backup_dir, test_results, core_files,
                   ROOT, child, pc, frame>>
    /\ UNCHANGED singleton

modify_temp_file(filename, new_content) ==
    /\ pc = "idle"
    /\ ModifyCall(filename, new_content)

\* ---------------------------------------------------- run_syntax_check
\* py_compile over every core file of the workspace: a missing file or a
\* file that does not compile gives a non-zero return code
\* (a check that never looks at the return code of py_compile)
SyntaxOK_IgnoresReturnCode(w, exists) ==
    \A f \in core_files : IsPy(f) => exists

SyntaxOK(w, exists) ==
    \A f \in core_files : IsPy(f) => (exists /\ Valid(w[f]))

run_syntax_check ==
    /\ pc = "idle"
    /\ IF temp_dir = None
       THEN Done(Return("syntax", FALSE, "not_started", FALSE, FALSE))
       ELSE IF SyntaxOK(ws, wsExists)
            THEN Done(Return("syntax", TRUE, "syntax_ok", FALSE, FALSE))
            ELSE Done(Return("syntax", FALSE, "syntax", FALSE, FALSE))
    /\ UNCHANGED <<fs, wsExists, temp_dir, backup_dir, modifications,
                   test_results, core_files, ROOT, child, pc, frame, trip>>
    /\ UNCHANGED singleton

\* ---------------------------------------------- run_shadow_server_test
\* lines 114-126: copy the runtime config files that exist in the live
\* tree into the workspace, then spawn the shadow server there.  Neither
\* step is inside the try block: a missing workspace raises to the caller.
ShadowCfgCopy(lv, w) ==
    [n \in Names |-> IF n \in shadow_cfg /\ lv[n] # Absent THEN lv[n] ELSE w[n]]

ShadowSpawn(caller, force, syntax_ok) ==
    IF ~wsExists
    THEN /\ Done(Raise(caller, force, FALSE))
         /\ UNCHANGED <<fs, child, pc, frame>>
    ELSE /\ fs' = [fs EXCEPT !["ws"] = ShadowCfgCopy(live, ws)]
         /\ child' = "running"
         /\ pc' = "warmup"
         /\ frame' = [caller |-> caller, force |-> force,
                      syntax_ok |-> syntax_ok, res |-> "none",
                      live0 |-> live, sent |-> {},
                      after_end |-> (ret.op = "end")]
         /\ ret' = NoRet

run_shadow_server_test ==
    /\ pc = "idle"
    /\ IF temp_dir = None
       THEN /\ Done(Return("shadow", FALSE, "not_started", FALSE, FALSE))
            /\ UNCHANGED <<fs, child, pc, frame>>
       ELSE ShadowSpawn("shadow", FALSE, FALSE)
    /\ UNCHANGED <<wsExists, temp_dir, backup_dir, modifications, test_results,
                   core_files, ROOT, trip>>
    /\ UNCHANGED singleton

\* the shadow process exits on its own during the warm-up sleep
child_crash ==
    /\ pc = "warmup"
    /\ child = "running"
    /\ child' = "exited"
    /\ UNCHANGED <<fs, wsExists, temp_dir, backup_dir, modifications,
                   test_results, core_files, ROOT, pc, frame, ret, trip>>
    /\ UNCHANGED singleton

\* (a crash check that never fires)
Polled_Never(c) == FALSE

\* process.poll() is not None
Polled(c) == c # "running"

\* lines 129-131: after the sleep, the crash check
shadow_poll ==
    /\ pc = "warmup"
    /\ IF Polled(child)
       THEN /\ frame' = [frame EXCEPT !.res = "crash"]
            /\ pc' = "finally"
       ELSE /\ pc' = "probe"
            /\ UNCHANGED frame
    /\ UNCHANGED <<fs, wsExists, temp_dir, backup_dir, modifications,
                   test_results, core_files, ROOT, child, ret, trip>>
    /\ UNCHANGED singleton

\* lines 135-137: GET /health; "exc" is a timeout or a connection error
HealthOutcomes == {"200", "500", "exc"}

shadow_health(out) ==
    /\ pc = "probe"
    /\ IF out = "200"
       THEN /\ pc' = "task"
            /\ frame' = [frame EXCEPT !.sent = @ \cup {"health"}]
       ELSE /\ frame' = [frame EXCEPT !.sent = @ \cup {"health"},
                                      !.res = IF out = "500" THEN "health" ELSE "exc"]
            /\ pc' = "finally"
    /\ UNCHANGED <<fs, wsExists, temp_dir, backup_dir, modifications,
                   test_results, core_files, ROOT, child, ret, trip>>
    /\ UNCHANGED singleton

\* sandbox.assert_in_sandbox in the shadow instance: abspath(path) must
\* start with ROOT.  The backup directory lies under jarvis_root.
InSandbox(p) == p.dir = ROOT \/ (ROOT = "live" /\ p.dir = "bak")

\* executor.write_file as the agent of the shadow instance may call it
\* while it runs the task; its working directory is the workspace
NoCall == [dir |-> "none", name |-> "none"]
ToolCalls == {NoCall, Rel("a.py"), At("live", "a.py")}

write_file(f, path, content) ==
    LET p == Join("ws", path) IN
    IF InSandbox(p) THEN [f EXCEPT ![p.dir][p.name] = content] ELSE f

\* lines 140-151: POST /run and the reading of its response
TaskOutcomes == {"result", "noresult", "500", "exc"}
\* (a reading of the response that looks at the status code only)
TaskRes_StatusOnly(out) == CASE out \in {"result", "noresult"} -> "pass"
                             [] out = "500" -> "taskfail"
                             [] OTHER -> "exc"

TaskRes(out) == CASE out = "result" -> "pass"
                  [] out = "noresult" -> "format"
                  [] out = "500" -> "taskfail"
                  [] OTHER -> "exc"

shadow_task(call, out) ==
    /\ pc = "task"
    /\ fs' = IF call = NoCall THEN fs ELSE write_file(fs, call, "c1")
    /\ trip' = IF call # NoCall /\ InSandbox(Join("ws", call))
               THEN [trip EXCEPT !.agent = TRUE] ELSE trip
    /\ frame' = [frame EXCEPT !.sent = @ \cup {"task"}, !.res = TaskRes(out)]
    /\ pc' = "finally"
    /\ UNCHANGED <<wsExists, temp_dir, backup_dir, modifications, test_results,
                   core_files, ROOT, child, ret>>
    /\ UNCHANGED singleton

\* lines 155-158: terminate, wait up to the grace timeout, else kill
\* process.terminate() and process.wait(timeout=5): a running process that
\* obeys SIGTERM has exited when wait returns
Terminate(c, obeys) == IF c = "running" /\ obeys THEN "exited" ELSE c
\* process.kill(), reached when wait timed out
Kill(c) == IF c = "running" THEN "exited" ELSE c
\* (a teardown without the kill after the grace timeout)
Teardown_NoKill(c, obeys) == Terminate(c, obeys)

Teardown(c, obeys) ==
    LET t == Terminate(c, obeys) IN IF t = "running" THEN Kill(t) ELSE t

shadow_finally(obeys) ==
    /\ pc = "finally"
    /\ child' = Teardown(child, obeys)
    /\ IF frame.caller = "shadow"
       THEN /\ Done([Return("shadow", frame.res = "pass", frame.res, FALSE,
                         live # frame.live0) EXCEPT !.sent = frame.sent])
            /\ pc' = "idle"
            /\ frame' = NoFrame
       ELSE IF frame.res # "pass" /\ ~frame.force
            THEN /\ Done([Return("apply", FALSE, frame.res, frame.force,
                              live # frame.live0) EXCEPT !.sent = frame.sent])
                 /\ pc' = "idle"
                 /\ frame' = NoFrame
            ELSE /\ pc' = "copy"
                 /\ UNCHANGED <<frame, ret>>
    /\ UNCHANGED <<fs, wsExists, temp_dir, backup_dir, modifications,
                   test_results, core_files, ROOT, trip>>
    /\ UNCHANGED singleton

\* ------------------------------------------------- apply_modifications
\* lines 161-167: the two gates
apply_modifications(force) ==
    /\ pc = "idle"
    /\ IF temp_dir = None
       THEN /\ Done(Return("apply", FALSE, "not_started", force, FALSE))
            /\ UNCHANGED <<fs, child, pc, frame>>
       ELSE IF ~SyntaxOK(ws, wsExists) /\ ~force
            THEN /\ Done(Return("apply", FALSE, "syntax", force, FALSE))
                 /\ UNCHANGED <<fs, child, pc, frame>>
            ELSE ShadowSpawn("apply", force, SyntaxOK(ws, wsExists))
    /\ UNCHANGED <<wsExists, temp_dir, backup_dir, modifications, test_results,
                   core_files, ROOT, trip>>
    /\ UNCHANGED singleton

\* shutil.copy2(src, dst): fails when src is missing or is dst itself
CanCopy(f, src, dst) ==
    /\ src # dst
    /\ DirExists(src.dir)
    /\ f[src.dir][src.name] # Absent

\* (a copy that leaves the destination as it was)
CopyFile_Noop(f, src, dst) == f

\* shutil.copy2(src, dst) when it succeeds
CopyFile(f, src, dst) == [f EXCEPT ![dst.dir][dst.name] = f[src.dir][src.name]]

\* lines 169-175: the copy loop from the i-th modification on; the result
\* is the file system it leaves and whether every copy succeeded
\* (a loop that catches the failure of one copy and goes on to the next)
RECURSIVE CopyLoop_KeepsGoing(_, _, _)
CopyLoop_KeepsGoing(f, mods, i) ==
    IF i > Len(mods)
    THEN [fs |-> f, ok |-> TRUE]
    ELSE LET src == Join("ws", mods[i])
             dst == Join("live", mods[i])
         IN IF CanCopy(f, src, dst)
            THEN CopyLoop_KeepsGoing(CopyFile(f, src, dst), mods, i + 1)
            ELSE [fs |-> CopyLoop_KeepsGoing(f, mods, i + 1).fs, ok |-> FALSE]

RECURSIVE CopyLoop(_, _, _)
CopyLoop(f, mods, i) ==
    IF i > Len(mods)
    THEN [fs |-> f, ok |-> TRUE]
    ELSE LET src == Join("ws", mods[i])
             dst == Join("live", mods[i])
         IN IF CanCopy(f, src, dst)
            THEN CopyLoop(CopyFile(f, src, dst), mods, i + 1)
            ELSE [fs |-> f, ok |-> FALSE]

apply_copy ==
    /\ pc = "copy"
    /\ LET r == CopyLoop(fs, modifications, 1) IN
       /\ fs' = r.fs
       /\ IF r.ok
          THEN /\ Done([Return("apply", TRUE, "applied", frame.force,
                                r.fs["live"] # frame.live0)
                         EXCEPT !.sent = frame.sent])
               /\ trip' = IF trip.phase = "edited"
                          THEN [trip EXCEPT !.phase = "applied"] ELSE trip
          ELSE /\ Done([Return("apply", FALSE, "copyfail", frame.force,
                                r.fs["live"] # frame.live0)
                         EXCEPT !.sent = frame.sent])
               /\ UNCHANGED trip
    /\ pc' = "idle"
    /\ frame' = NoFrame
    /\ UNCHANGED <<wsExists, temp_dir, backup_dir, modifications, test_results,
                   core_files, ROOT, child>>
    /\ UNCHANGED singleton

\* ------------------------------------------------------------ rollback
\* every file of the backup directory is copied onto the live tree
\* (a rollback that keeps the replaced live files as the new backup)
RollbackFs_Swap(f) ==
    [f EXCEPT !["live"] = [n \in Names |-> IF f["bak"][n] # Absent
                                          THEN f["bak"][n] ELSE f["live"][n]],
              !["bak"] = [n \in Names |-> IF f["bak"][n] # Absent
                                         THEN f["live"][n] ELSE f["bak"][n]]]

\* (a rollback that restores from the workspace directory)
RollbackFs_FromWorkspace(f) ==
    [f EXCEPT !["live"] = [n \in Names |-> IF f["ws"][n] # Absent
                                          THEN f["ws"][n] ELSE f["live"][n]]]

RollbackFs(f) ==
    [f EXCEPT !["live"] = [n \in Names |-> IF f["bak"][n] # Absent
                                          THEN f["bak"][n] ELSE f["live"][n]]]

rollback ==
    /\ pc = "idle"
    /\ IF backup_dir = None
       THEN /\ Done(Return("rollback", FALSE, "no_backup", FALSE, FALSE))
            /\ UNCHANGED <<fs, trip>>
       ELSE /\ fs' = RollbackFs(fs)
            /\ trip' = IF trip.phase = "applied"
                       THEN [trip EXCEPT !.phase = "rolledback"] ELSE trip
            /\ Done(Return("rollback", TRUE, "rolled_back", FALSE,
                            RollbackFs(fs)["live"] # live))
    /\ UNCHANGED <<wsExists, temp_dir, backup_dir, modifications, test_results,
                   core_files, ROOT, child, pc, frame>>
    /\ UNCHANGED singleton

\* --------------------------------------------------------- end_session
\* (an end that removes the workspace whatever the flag)
EndRemoves_IgnoresFlag(cleanup) == temp_dir # None /\ wsExists

\* line 188: the condition under which shutil.rmtree(self.temp_dir) runs
EndRemoves(cleanup) == cleanup /\ temp_dir # None /\ wsExists

end_session(cleanup) ==
    /\ pc = "idle"
    /\ IF EndRemoves(cleanup)
       THEN /\ wsExists' = FALSE
            /\ fs' = [fs EXCEPT !["ws"] = NoFiles]
       ELSE UNCHANGED <<wsExists, fs>>
    /\ Done(Return("end", TRUE, "ended", FALSE, FALSE))
    /\ UNCHANGED <<temp_dir, backup_dir, modifications, test_results,
                   core_files, ROOT, child, pc, frame, trip>>
    /\ UNCHANGED singleton

\* -------------------------------------------------------- specification
Next ==
    \/ start_session
    \/ \E f \in FileArgs, c \in ContentsIn : modify_temp_file(f, c)
    \/ run_syntax_check
    \/ run_shadow_server_test
    \/ child_crash
    \/ shadow_poll
    \/ \E out \in HealthOutcomes : shadow_health(out)
    \/ \E call \in ToolCalls, out \in TaskOutcomes : shadow_task(call, out)
    \/ \E obeys \in BOOLEAN : shadow_finally(obeys)
    \/ \E force \in BOOLEAN : apply_modifications(force)
    \/ apply_copy
    \/ rollback
    \/ \E cleanup \in BOOLEAN : end_session(cleanup)

Spec == Init /\ [][Next]_vars

\* --------------------------------------------------- get_session_status
get_session_status ==
    [active |-> temp_dir # None, modifications |-> modifications]

\* ------------------------------------------------ start_session failing
\* A call of start_session that raises inside its try block and returns
\* (False, ...), by the statement that raised:
\*   "mkdtemp"  line 52, before self.temp_dir is assigned
\*   "makedirs" line 54, after self.temp_dir is assigned a fresh directory
\*   "copy"     line 62, the first copy into the workspace, after
\*              self.backup_dir is assigned and its directory made
StartFailures == {"mkdtemp", "makedirs", "copy"}

start_session_fails(at) ==
    /\ pc = "idle"
    /\ IF at = "mkdtemp"
       THEN UNCHANGED <<temp_dir, wsExists, fs, backup_dir>>
       ELSE /\ temp_dir' = "ws"
            /\ wsExists' = TRUE
            /\ fs' = [fs EXCEPT !["ws"] = NoFiles]
            /\ backup_dir' = IF at = "copy" THEN "bak" ELSE backup_dir
    /\ Done(Return("start", FALSE, "start_failed", FALSE, FALSE))
    /\ trip' = NoTrip
    /\ UNCHANGED <<modifications, test_results, core_files, ROOT, child,
                   pc, frame>>
    /\ UNCHANGED singleton

NextFault ==
    \/ Next
    \/ \E at \in StartFailures : start_session_fails(at)

SpecFault == Init /\ [][NextFault]_vars

\* ------------------------------------------------------ request_restart
\* lines 196-203: the flag file is written with the current time
request_restart ==
    /\ pc = "idle"
    /\ fs' = [fs EXCEPT !["live"][Sentinel] = "ts"]
    /\ Done(Return("restart", TRUE, "requested", FALSE, FALSE))
    /\ UNCHANGED <<wsExists, temp_dir, backup_dir, modifications, test_results,
                   core_files, ROOT, child, pc, frame, trip>>
    /\ UNCHANGED singleton

\* --------------------------------------------------- more file names
\* modify_temp_file takes any string as filename: the absolute path of a
\* file of the backup directory, the name of a file the project does not
\* have yet, the name of a runtime config file and the name of the restart
\* flag are more such strings
BackupPaths == {At("bak", "a.py")}
NewFiles == {Rel("n.py")}
ConfigEdits == {Rel("STATE.json")}
SentinelEdits == {Rel(Sentinel)}
MoreFileArgs == BackupPaths \cup NewFiles \cup ConfigEdits \cup SentinelEdits

NextPaths ==
    \/ Next
    \/ \E f \in MoreFileArgs, c \in ContentsIn : modify_temp_file(f, c)
    \/ request_restart

SpecPaths == Init /\ [][NextPaths]_vars

\* ---------------------------------------------------- concurrent requests
\* The handlers of server.py take no lock and run on pool threads: while one
\* request is inside run_shadow_server_test or apply_modifications (pc is
\* not "idle"), a second request can run a whole session operation.
concurrent_modify(filename, new_content) ==
    /\ pc # "idle"
    /\ ModifyCall(filename, new_content)

NextConc ==
    \/ Next
    \/ \E f \in FileArgs, c \in ContentsIn : concurrent_modify(f, c)

SpecConc == Init /\ [][NextConc]_vars

\* ------------------------------------ get_or_create_session, clear_session
\* The self-modify endpoints of server.py are plain def handlers: the server
\* runs each request on a thread of its pool, and each handler begins with
\* get_or_create_session().  The function reads the global, constructs and
\* stores a session if it read None, then reads the global again to return
\* it; a thread switch can fall between any two of these.
Constructing == Cardinality({t \in Threads : gpc[t] = "new"})

\* line 210, the test: _current_session is None
get_check(t) ==
    /\ gpc[t] = "idle"
    /\ IF current_session = 0
       THEN /\ made + Constructing < MaxObjs
            /\ gpc' = [gpc EXCEPT ![t] = "new"]
       ELSE gpc' = [gpc EXCEPT ![t] = "ret"]
    /\ UNCHANGED <<current_session, made, clears, got>>
    /\ UNCHANGED session

\* line 210, the assignment: _current_session = SelfModifySession()
get_create(t) ==
    /\ gpc[t] = "new"
    /\ made' = made + 1
    /\ current_session' = made + 1
    /\ gpc' = [gpc EXCEPT ![t] = "ret"]
    /\ UNCHANGED <<clears, got>>
    /\ UNCHANGED session

\* line 211: return _current_session
get_return(t) ==
    /\ gpc[t] = "ret"
    /\ got' = [got EXCEPT ![t] = current_session]
    /\ gpc' = [gpc EXCEPT ![t] = "idle"]
    /\ UNCHANGED <<current_session, made, clears>>
    /\ UNCHANGED session

\* lines 213-215
clear_session ==
    /\ clears < MaxObjs
    /\ current_session' = 0
    /\ clears' = clears + 1
    /\ UNCHANGED <<made, gpc, got>>
    /\ UNCHANGED session

NextSingleton ==
    \/ \E t \in Threads : get_check(t)
    \/ \E t \in Threads : get_create(t)
    \/ \E t \in Threads : get_return(t)
    \/ clear_session

SpecSingleton == Init /\ [][NextSingleton]_vars

\* ================================================================ claims
Started == temp_dir # None
InShadow == pc \in {"warmup", "probe", "task", "finally"}
ShadowFailures == {"crash", "health", "exc", "format", "taskfail"}
\* some tracked core file of the workspace does not compile
SomeInvalid == \E f \in core_files : ws[f] # Absent /\ ~Valid(ws[f])

\* C1: in a started session no call to modify_temp_file changes the content
\* of a live file or of a backup file, whatever the file name and content.
C1_ModifyIsolation ==
    [][\A f \in FileArgs, c \in ContentsIn :
          (Started /\ modify_temp_file(f, c)) =>
              (fs'["live"] = fs["live"] /\ fs'["bak"] = fs["bak"])]_vars

\* C2: when the workspace copy of a tracked core file is syntactically
\* invalid as apply(force=false) is called, apply returns applied=false at
\* once and writes no file.
C2_SyntaxGate ==
    [][(Started /\ SomeInvalid /\ apply_modifications(FALSE)) =>
          (ret'.op = "apply" /\ ~ret'.ok /\ ~ret'.raised /\ pc' = "idle"
           /\ fs' = fs)]_vars

C2_Witness ==
    /\ pc = "idle"
    /\ ret.op = "apply" /\ ret.msg = "syntax" /\ ~ret.force /\ ~ret.ok
    /\ ws["b.py"] = "bad" /\ Valid(ws["a.py"])

\* C3: the copy loop of apply changes a live file only if force was passed
\* or both the syntax check and the shadow test of that apply passed; an
\* apply(force=false) whose shadow test failed returns applied=false with
\* the live tree as it was when apply was called.
C3_GateOverride ==
    /\ [][(pc = "copy" /\ fs'["live"] # fs["live"]) =>
             (frame.force \/ (frame.syntax_ok /\ frame.res = "pass"))]_vars
    /\ []((pc = "idle" /\ ret.op = "apply" /\ ~ret.force
           /\ ret.msg \in ShadowFailures) => (~ret.ok /\ ~ret.touched))

\* C4: with an empty modifications list apply, forced or not, returns
\* applied=false and its copy loop changes no live file.
C4_EmptyRefused ==
    /\ []((pc = "idle" /\ ret.op = "apply" /\ modifications = <<>>) => ~ret.ok)
    /\ [][(pc = "copy" /\ modifications = <<>>) => fs'["live"] = fs["live"]]_vars

\* C5: once run_shadow_server_test has returned (to its caller or into
\* apply), the shadow process it spawned is no longer running, on every
\* exit path.
C5_Teardown == (pc \in {"idle", "copy"}) => child # "running"

C5_Witness ==
    /\ pc = "idle" /\ ret.op = "shadow" /\ ret.msg = "exc"
    /\ ret.sent = {"health", "task"} /\ child = "exited"

\* C6: if the shadow process has exited by the end of the warm-up wait, the
\* test fails with the crashed-at-startup detail and neither the health
\* probe nor the task request is sent.
C6_StartupCrash ==
    /\ [][(pc = "warmup" /\ child = "exited" /\ pc' # "warmup") =>
             (pc' = "finally" /\ frame'.res = "crash")]_vars
    /\ [](frame.res = "crash" => frame.sent = {})
    /\ []((ret.op = "shadow" /\ ret.msg = "crash") =>
             (~ret.ok /\ ret.sent = {}))

C6_Witness ==
    /\ pc = "idle" /\ ret.op = "shadow" /\ ret.msg = "crash" /\ ~ret.ok
    /\ ret.sent = {} /\ child = "exited"

\* the state right after modify(f, c), a successful apply and a rollback
RoundTripDone ==
    /\ pc = "idle" /\ ret.op = "rollback" /\ ret.ok
    /\ trip.phase = "rolledback" /\ trip.file \in core_files

C8_RollbackIdempotent ==
    (pc = "idle" /\ ret.op = "rollback" /\ ret.ok) =>
        RollbackFs(fs)["live"] = live

C8_Witness ==
    /\ pc = "idle" /\ ret.op = "rollback" /\ ret.ok /\ ret.touched
    /\ live = [n \in Names |-> bak[n]]
    /\ ws["a.py"] # live["a.py"]

\* C9: in every state after a successful start, rollback returns
\* restored=true and leaves every file of the backup directory with live
\* content equal to its backup content.
C9_RollbackAvailable ==
    (pc = "idle" /\ ret.op = "rollback" /\ Started) =>
        /\ ret.ok
        /\ \A n \in Names : bak[n] # Absent => live[n] = bak[n]

C9_Witness ==
    /\ pc = "idle" /\ ret.op = "rollback" /\ ret.ok /\ ret.touched
    /\ ~wsExists /\ Len(modifications) = 2
    /\ \A n \in core_files \cup config_files :
          bak[n] # Absent /\ live[n] = bak[n]

\* C10: from the start of run_syntax_check or run_shadow_server_test until
\* it returns, the shadow instance and its task included, the content of
\* every tracked live file is unchanged.
C10_ValidationFrame ==
    /\ [](InShadow => live = frame.live0)
    /\ []((pc = "idle" /\ ret.op \in {"syntax", "shadow"}) => ~ret.touched)

\* C11: every get_or_create_session call made before the first clear_session
\* returns the same session object, and a session object is constructed
\* only as the first one or after a clear_session (never two without a
\* clear_session between them).
C11_Singleton ==
    /\ made <= clears + 1
    /\ clears = 0 =>
          \A a, b \in Threads : (got[a] # 0 /\ got[b] # 0) => got[a] = got[b]

\* C12: from the spawn of the shadow process until its teardown is done, no
\* call other than the test itself (or the apply that runs it) completes on
\* the session.
C12_NoConcurrentOp ==
    [][InShadow => (ret' = ret \/ ret'.op \in {"shadow", "apply"})]_vars

\* C13: after a start that failed the status reports active=false, and a
\* modify, syntax check, shadow test or apply called next is refused as
\* session-not-started.
C13_NoPartialSession ==
    /\ []((pc = "idle" /\ ret.op = "start" /\ ~ret.ok) =>
             ~get_session_status.active)
    /\ [][(pc = "idle" /\ ret.op = "start" /\ ~ret.ok
            /\ ret'.op \in {"modify", "syntax", "shadow", "apply"}) =>
             ret'.msg = "not_started"]_vars

\* C14: a modify called before any start, or right after end has returned,
\* fails with the session-not-started error, writes no file and appends no
\* record to modifications.
C14_ModifyNeedsActive ==
    [][\A f \in {x \in FileArgs : x.dir = "rel"}, c \in ContentsIn :
          ((temp_dir = None \/ ret.op = "end") /\ modify_temp_file(f, c)) =>
              (~ret'.ok /\ ret'.msg = "not_started" /\ fs' = fs
               /\ modifications' = modifications)]_vars

\* C15: once end has returned, the status reports active=false, and the
\* copy loop of an apply called next changes no live file.
C15_EndTerminal ==
    /\ []((pc = "idle" /\ ret.op = "end") => ~get_session_status.active)
    /\ [][(frame.after_end /\ pc = "copy") => fs'["live"] = fs["live"]]_vars

\* C16: end(cleanup) leaves the live tree and the backup directory as they
\* were; with cleanup true the workspace directory does not exist
\* afterwards, with cleanup false the workspace is left as it was.
C16_EndFrame ==
    [][\A c \in BOOLEAN :
          end_session(c) =>
              /\ fs'["live"] = fs["live"] /\ fs'["bak"] = fs["bak"]
              /\ c => ~wsExists'
              /\ ~c => (wsExists' = wsExists /\ fs'["ws"] = fs["ws"])]_vars

C16_Witness ==
    /\ pc = "idle" /\ ret.op = "end" /\ ~wsExists /\ temp_dir # None
    /\ ws = NoFiles /\ bak["a.py"] = "a0" /\ live["a.py"] = "c1"
    /\ Len(modifications) = 1

\* C17: when apply has returned applied=true, every entry of modifications
\* names a file whose live copy equals its workspace copy.
C17_ApplyCopiesAll ==
    (pc = "idle" /\ ret.op = "apply" /\ ret.ok) =>
        \A i \in 1..Len(modifications) :
            /\ modifications[i].dir = "rel"
            /\ ws[modifications[i].name] # Absent
            /\ live[modifications[i].name] = ws[modifications[i].name]

C17_Witness ==
    /\ pc = "idle" /\ ret.op = "apply" /\ ret.ok /\ ~ret.force /\ ret.touched
    /\ modifications = <<Rel("a.py"), Rel("b.py")>>
    /\ live["a.py"] = "c1" /\ live["b.py"] = "c1"
    /\ bak["a.py"] = "a0" /\ bak["b.py"] = "b0"

\* the position in modifications of the first entry whose copy cannot
\* succeed, 0 when every copy can
FirstUncopyable ==
    LET bad == {i \in 1..Len(modifications) :
                   ~CanCopy(fs, Join("ws", modifications[i]),
                                Join("live", modifications[i]))}
    IN IF bad = {} THEN 0 ELSE CHOOSE i \in bad : \A j \in bad : i <= j

\* C18: when the copy of the N-th entry of modifications fails, apply
\* returns applied=false, each file named by entries 1..N-1 has its
\* workspace content in the live tree, and every other live file, the
\* files named after N included, is as it was before the copy loop.
C18_PartialApply ==
    [][(pc = "copy" /\ FirstUncopyable # 0) =>
          /\ ret'.op = "apply" /\ ~ret'.ok /\ ~ret'.raised /\ pc' = "idle"
          /\ \A n \in Names :
                fs'["live"][n] =
                    IF \E i \in 1..(FirstUncopyable - 1) : modifications[i] = Rel(n)
                    THEN ws[n] ELSE live[n]
          /\ fs'["ws"] = ws /\ fs'["bak"] = bak]_vars

C18_Witness ==
    /\ pc = "idle" /\ ret.op = "apply" /\ ret.msg = "copyfail" /\ ~ret.ok
    /\ ret.touched
    /\ modifications = <<Rel("a.py"), At("live", "b.py")>>
    /\ live["a.py"] = "c1" /\ ws["a.py"] = "c1" /\ bak["a.py"] = "a0"

\* the tracked core file n is named by some entry of modifications
Recorded(n) == \E i \in 1..Len(modifications) : modifications[i] = Rel(n)

\* C19: while a started session's workspace exists, every tracked core file
\* that no entry of modifications names has the same content in the
\* workspace and in the backup directory.
C19_WorkspaceMatchesBackup ==
    (Started /\ wsExists) =>
        \A n \in core_files : ~Recorded(n) => ws[n] = bak[n]

\* C20: after a syntax check or a shadow test that ran to completion, the
\* last element of test_results is a result of that kind whose passed flag
\* is the boolean the call returned.
C20_TestResultAppended ==
    (pc = "idle" /\ ret.op \in {"syntax", "shadow"} /\ ~ret.raised
     /\ ret.msg # "not_started") =>
        /\ test_results # <<>>
        /\ test_results[Len(test_results)] = [kind |-> ret.op, passed |-> ret.ok]

\* C21: a health probe that does not return 200 ends the test as failed
\* with no task request sent; the task request gives the pass result
\* exactly when it returns 200 with a result field; a pass result is reached
\* only with the child running at the crash check and both requests sent;
\* and the test returns passed=true exactly when its result is pass.
C21_ShadowPassIff ==
    /\ [][\A out \in HealthOutcomes :
            (shadow_health(out) /\ out # "200") =>
                (pc' = "finally" /\ frame'.res \in {"health", "exc"}
                 /\ "task" \notin frame'.sent)]_vars
    /\ [][\A call \in ToolCalls, out \in TaskOutcomes :
            shadow_task(call, out) => (frame'.res = "pass" <=> out = "result")]_vars
    /\ [][(pc = "finally" /\ pc' = "idle" /\ frame.caller = "shadow") =>
            (ret'.op = "shadow" /\ (ret'.ok <=> frame.res = "pass"))]_vars
    /\ [](frame.res = "pass" => frame.sent = {"health", "task"})
    /\ []((pc = "idle" /\ ret.op = "shadow" /\ ret.ok) =>
             (ret.msg = "pass" /\ ret.sent = {"health", "task"}))

C21_Witness ==
    /\ pc = "idle" /\ ret.op = "shadow" /\ ret.ok /\ ret.msg = "pass"
    /\ ret.sent = {"health", "task"} /\ child = "exited"
    /\ ws["a.py"] = "c1"

\* C23: every step leaves modifications as it was or appends one record at
\* its end, and it appends only as a modify returns success; a modify that
\* returns failure leaves it as it was.
C23_AppendOnly ==
    [][/\ \/ modifications' = modifications
          \/ /\ Len(modifications') = Len(modifications) + 1
             /\ SubSeq(modifications', 1, Len(modifications)) = modifications
             /\ ret'.op = "modify" /\ ret'.ok
       /\ \A f \in FileArgs, c \in ContentsIn :
             (modify_temp_file(f, c) /\ ~ret'.ok) => modifications' = modifications
       /\ \A f \in FileArgs, c \in ContentsIn :
             (modify_temp_file(f, c) /\ ret'.ok) =>
                 modifications' = Append(modifications, f)]_vars

C23_Witness ==
    /\ pc = "idle" /\ ret.op = "start" /\ ret.ok
    /\ modifications = <<Rel("a.py"), Rel("a.py")>>
    /\ live["a.py"] = "c1" /\ bak["a.py"] = "c1" /\ ws["a.py"] = "c1"

\* C22: request_restart writes the flag file and changes nothing else (no
\* session field, no other live file, no workspace or backup file, not the
\* shadow process); and the flag file changes only in a request_restart
\* call, never in apply, rollback or end.
C22_RestartOnlyOnRequest ==
    /\ [][request_restart =>
            /\ \A n \in Names \ {Sentinel} : fs'["live"][n] = live[n]
            /\ fs'["ws"] = ws /\ fs'["bak"] = bak
            /\ UNCHANGED <<wsExists, temp_dir, backup_dir, modifications,
                           test_results, core_files, child, pc>>]_vars
    /\ [][fs'["live"][Sentinel] # live[Sentinel] => ret'.op = "restart"]_vars

\* C24: a syntax check of a started session returns allPassed=true exactly
\* when every tracked core file that is present in the workspace compiles;
\* a tracked file that is absent is skipped.
C24_SyntaxSkipsAbsent ==
    (pc = "idle" /\ ret.op = "syntax" /\ Started) =>
        (ret.ok <=> \A f \in core_files : ws[f] # Absent => Valid(ws[f]))

\* C25: once the backup exists no step changes the content of the backup
\* directory (stated for the runs in which every file name given to modify
\* is relative and the shadow instance cannot write into the project).
C25_BackupImmutable ==
    [][(backup_dir # None /\ ROOT = "ext"
        /\ \A i \in 1..Len(modifications) : modifications[i].dir = "rel") =>
           fs'["bak"] = bak]_vars

\* C26: after a rollback, a file that did not exist in the live tree when
\* the session started (here n.py, which only apply can create) does not
\* exist in the live tree.
C26_RollbackUndoesApply ==
    (pc = "idle" /\ ret.op = "rollback" /\ ret.ok) =>
        \A f \in NewFiles : live[f.name] = Absent

\* C27: the copy loop of an apply(force=false) changes a live .py file only
\* if that file is among the core files its syntax check compiled.
C27_AppliedWasChecked ==
    [][(pc = "copy" /\ ~frame.force) =>
          \A n \in Names :
              (IsPy(n) /\ fs'["live"][n] # live[n]) => n \in core_files]_vars

\* C28: when an apply that follows modify(f, c), the latest edit of the
\* session, returns applied=true, the live copy of f is c.
C28_AppliesLastEdit ==
    (pc = "idle" /\ ret.op = "apply" /\ ret.ok /\ trip.phase = "applied") =>
        live[trip.file] = trip.content

\* C29: the content the copy loop of an apply(force=false) writes to a live
\* core file is content its syntax check accepted: it compiles.
C29_AppliedWasValidated ==
    [][(apply_copy /\ ~frame.force) =>
          \A n \in core_files :
              fs'["live"][n] # live[n] => Valid(fs'["live"][n])]_vars

\* C30: run_shadow_server_test and apply_modifications never end by
\* raising an exception to their caller.
C30_NeverRaises ==
    (pc = "idle" /\ ret.op \in {"shadow", "apply"}) => ~ret.raised

====
